---------------------------- MODULE Spec2Model ----------------------------
(***************************************************************************)
(* go-zed-test-toggle: alternate-file resolution (src/main.go).            *)
(*                                                                         *)
(* Paths are TLA+ strings handled character by character, the way the Go   *)
(* code handles them with strings.Replace, strings.HasSuffix, regexp and   *)
(* filepath.Join.  The filesystem is the set of absolute paths of the      *)
(* regular files that exist; a directory exists when a file lies below it. *)
(***************************************************************************)
EXTENDS Integers, Sequences, FiniteSets, TLC

VARIABLES fs,        \* set of absolute paths of the files on disk
          root,      \* Project.Root of the last lookup
          filename,  \* SourceFile.Filename of the last lookup
          result,    \* what AlternateFile returned
          probes,    \* the fileExists calls AlternateFile made, in order
          called,    \* TRUE once a lookup has run on the current filesystem
          origin,    \* the file the editor showed before it opened filename
          pc,        \* where the process is: "idle", "resolved", "returned", "exited"
          err,       \* the error CLI.Run returned, "" for nil
          launched,  \* the zed commands run: argument and what cmd.Run returned
          status,    \* the exit status of the process, NoStatus while it runs
          detected,  \* what the accessors of Project and SourceFile returned
          runs,      \* the processes run since the filesystem last changed
          denied,    \* the absolute paths on which stat fails with EACCES
          call       \* the AlternateFile call under way: its position, its
                     \* local variables and the convention answers it has read

vars == <<fs, root, filename, result, probes, called, origin,
          pc, err, launched, status, detected, runs, denied, call>>

(***************************************************************************)
(* Bounds and inputs                                                       *)
(***************************************************************************)
MaxFiles == 3

\* the most processes run on an unchanged filesystem
MaxRuns == 2

DiskRoot == "/p"

\* the -r arguments the editor task passes
Roots == {"/p", "/p/"}

\* files that decide the project's layout and convention
MarkerFiles == {".rspec", "my_gem.gemspec"}

\* Ruby files that may exist below the project root, one set per file under
\* edit; the files on disk at one time are markers and files of one set
UserFiles ==
    { "lib/user.rb", "app/user.rb", "lib/lib/user.rb",
      "spec/lib/user_spec.rb", "spec/user_spec.rb",
      "test/lib/user_test.rb", "test/user_test.rb" }

ModelFiles ==
    { "app/models/user.rb", "lib/models/user.rb", "spec/models/user_spec.rb",
      "test/models/user_test.rb", "test/models/test_user.rb" }

CalculatorFiles ==
    { "lib/calculator.rb", "test/calculator_test.rb",
      "test/test_calculator.rb" }

ControllerFiles ==
    { "app/controllers/api/v1/foos_controller.rb",
      "spec/requests/api/v1/foos_controller_spec.rb",
      "spec/controllers/api/v1/foos_controller_spec.rb",
      "app/requests/api/v1/foos_controller.rb",
      "spec/requests/api/v1/foos_spec.rb" }

UsersControllerFiles ==
    { "app/controllers/users_controller.rb",
      "spec/requests/users_controller_spec.rb",
      "spec/controllers/users_controller_spec.rb" }

TestControllerFiles ==
    { "app/controllers/test_controller.rb",
      "spec/requests/test_controller_spec.rb",
      "spec/controllers/test_controller_spec.rb" }

\* a directory whose own name ends like a controller or a controller spec
NestedControllerFiles ==
    { "app/controllers/a_controller.rb/b_controller.rb",
      "spec/requests/a_controller.rb/b_controller_spec.rb",
      "spec/requests/a_controller_spec.rb/b_controller_spec.rb",
      "app/controllers/a_controller_spec.rb/b_controller.rb" }

GemRootFiles ==
    { "my_gem.rb", "lib/my_gem.rb", "spec/my_gem_spec.rb",
      "my_gem_spec.rb", "spec/my_gem.rb" }

\* a source directory name inside a segment, and a second ".rb"
SubstitutionFiles ==
    { "config/application.rb", "config/speclication_spec.rb",
      "config/application_spec.rb",
      "lib/backup.rb.rb", "spec/backup_spec.rb.rb" }

Families ==
    { SubstitutionFiles, UserFiles, ModelFiles, CalculatorFiles, ControllerFiles,
      UsersControllerFiles, TestControllerFiles, NestedControllerFiles, GemRootFiles }

RubyFiles == UNION Families

\* the -p arguments the editor task passes
Paths ==
    { "lib/user.rb", "spec/lib/user_spec.rb", "spec/user_spec.rb",
      "test/lib/user_test.rb",
      "app/models/user.rb", "spec/models/user_spec.rb",
      "test/models/test_user.rb",
      "lib/calculator.rb", "test/test_calculator.rb",
      "app/controllers/api/v1/foos_controller.rb",
      "spec/requests/api/v1/foos_controller_spec.rb",
      "spec/controllers/api/v1/foos_controller_spec.rb",
      "spec/requests/api/v1/foos_spec.rb",
      "app/controllers/users_controller.rb",
      "spec/controllers/users_controller_spec.rb",
      "app/controllers/test_controller.rb",
      "app/controllers/a_controller.rb/b_controller.rb",
      "spec/requests/a_controller_spec.rb/b_controller_spec.rb",
      "my_gem.rb", "spec/my_gem_spec.rb",
      "config/application.rb", "lib/backup.rb.rb" }

(***************************************************************************)
(* package strings                                                         *)
(***************************************************************************)
HasPrefix(s, prefix) ==
    /\ Len(s) >= Len(prefix)
    /\ SubSeq(s, 1, Len(prefix)) = prefix

HasSuffix(s, suffix) ==
    /\ Len(s) >= Len(suffix)
    /\ SubSeq(s, Len(s) - Len(suffix) + 1, Len(s)) = suffix

\* the least position of a set of positions, 0 for the empty set
First(positions) ==
    IF positions = {} THEN 0
    ELSE CHOOSE i \in positions : \A j \in positions : i <= j

\* 1-based position of the first occurrence of substr in s, 0 when absent
Index(s, substr) ==
    First({ i \in 1..(Len(s) - Len(substr) + 1) :
              SubSeq(s, i, i + Len(substr) - 1) = substr })

Contains(s, substr) == Index(s, substr) # 0

TrimSuffix(s, suffix) ==
    IF HasSuffix(s, suffix) THEN SubSeq(s, 1, Len(s) - Len(suffix)) ELSE s

\* s with the n characters at position i replaced by new; s when i is 0
Splice(s, i, n, new) ==
    IF i = 0 THEN s
    ELSE SubSeq(s, 1, i - 1) \o new \o SubSeq(s, i + n, Len(s))

\* strings.Replace(s, old, new, 1)
ReplaceFirst(s, old, new) == Splice(s, Index(s, old), Len(old), new)

(***************************************************************************)
(* package path/filepath                                                   *)
(***************************************************************************)
\* the part of s before position i, all of s when i is 0
Before(s, i) == IF i = 0 THEN s ELSE SubSeq(s, 1, i - 1)

\* the part of s after position i, nothing when i is 0
After(s, i) == IF i = 0 THEN "" ELSE SubSeq(s, i + 1, Len(s))

\* the elements of a path, separated by slashes
RECURSIVE SplitSlash(_)
SplitSlash(s) ==
    IF ~Contains(s, "/") THEN <<s>>
    ELSE <<Before(s, Index(s, "/"))>> \o SplitSlash(After(s, Index(s, "/")))

RECURSIVE CleanElems(_, _, _)
CleanElems(elems, out, rooted) ==
    IF elems = <<>> THEN out
    ELSE LET e == Head(elems)
             rest == Tail(elems)
         IN  IF e = "" \/ e = "." THEN CleanElems(rest, out, rooted)
             ELSE IF e = ".."
                  THEN IF out # <<>> /\ out[Len(out)] # ".."
                       THEN CleanElems(rest, SubSeq(out, 1, Len(out) - 1), rooted)
                       ELSE IF rooted THEN CleanElems(rest, out, rooted)
                       ELSE CleanElems(rest, Append(out, ".."), rooted)
                  ELSE CleanElems(rest, Append(out, e), rooted)

RECURSIVE JoinSlash(_)
JoinSlash(elems) ==
    IF elems = <<>> THEN ""
    ELSE IF Len(elems) = 1 THEN elems[1]
    ELSE elems[1] \o "/" \o JoinSlash(Tail(elems))

\* a sufficient condition for Clean to return its argument: no empty, "."
\* or ".." element and no trailing slash
IsClean(path) ==
    /\ path # ""
    /\ ~HasPrefix(path, ".")
    /\ path = "/" \/ ~HasSuffix(path, "/")
    /\ ~HasSuffix(path, "/.")
    /\ \A i \in 1..(Len(path) - 2) :
          SubSeq(path, i, i) = "/" =>
              /\ SubSeq(path, i + 1, i + 1) # "/"
              /\ SubSeq(path, i + 1, i + 2) \notin {"./", ".."}

\* the cleaned elements put together again
Rooted(rooted, body) ==
    IF rooted THEN "/" \o body
    ELSE IF body = "" THEN "." ELSE body

Clean(path) ==
    IF IsClean(path) THEN path
    ELSE Rooted(HasPrefix(path, "/"),
                JoinSlash(CleanElems(SplitSlash(path), <<>>, HasPrefix(path, "/"))))

\* filepath.Join(a, b): empty elements are ignored, the rest is cleaned
Join(a, b) ==
    IF a = "" /\ b = "" THEN ""
    ELSE Clean(IF a = "" THEN b ELSE IF b = "" THEN a ELSE a \o "/" \o b)


(***************************************************************************)
(* The filesystem: os.Stat and filepath.Glob                               *)
(***************************************************************************)
\* os.Stat succeeds on a regular file and on a directory holding one
StatOk(files, path) ==
    \/ path \in files
    \/ /\ path # ""
       /\ \E f \in files : HasPrefix(f, TrimSuffix(path, "/") \o "/")

\* the error of os.Stat and os.Lstat, "" for nil
Stat(files, path) ==
    IF path \in denied THEN "EACCES"
    ELSE IF StatOk(files, path) THEN "" ELSE "ENOENT"

\* variant of fileExists: the error of os.Stat is not looked at
fileExists_IgnoresErr(files, path) == TRUE

\* variant of fileExists: only a missing file counts as absent
fileExists_UnlessNotExist(files, path) == Stat(files, path) # "ENOENT"

fileExists(files, path) == Stat(files, path) = ""

\* the pattern has a [ that no ] closes
Unclosed(pattern, i) == i # 0 /\ ~Contains(After(pattern, i), "]")

\* filepath.Glob returns ErrBadPattern: the pattern is malformed
BadPattern(pattern) == Unclosed(pattern, Index(pattern, "["))

\* filepath.Glob of a pattern without *, one Lstat whose error is dropped
GlobFile(files, pattern) ==
    ~BadPattern(pattern) /\ Stat(files, pattern) = ""

\* the names of the entries of directory dir
\* the first element of a relative path
FirstElem(below) == Before(below, Index(below, "/"))

DirNames(files, dir) ==
    { FirstElem(SubSeq(f, Len(dir) + 2, Len(f))) :
        f \in { g \in files : HasPrefix(g, dir \o "/") } }

(***************************************************************************)
(* Project                                                                 *)
(***************************************************************************)
NewProject(r) == [Root |-> TrimSuffix(r, "/")]

\* variant of IsGem: a manifest at any depth counts
IsGem_AnyDepth(p, files) ==
    \E f \in files : HasPrefix(f, Clean(p.Root) \o "/") /\ HasSuffix(f, ".gemspec")

\* filepath.Glob(Join(Root, "*.gemspec")): * matches within one name
IsGem(p, files) ==
    /\ ~BadPattern(Join(p.Root, "*.gemspec"))
    /\ \E n \in DirNames(files, Clean(p.Root)) : HasSuffix(n, ".gemspec")

\* the three clues; ** matches like *, exactly one directory level
IsSpec(p, files) ==
    \/ GlobFile(files, Join(p.Root, "spec/spec_helper.rb"))
    \/ GlobFile(files, Join(p.Root, ".rspec"))
    \/ /\ ~BadPattern(Join(p.Root, "**/spec/spec_helper.rb"))
       /\ \E d \in DirNames(files, Clean(p.Root)) :
             StatOk(files, Join(p.Root, d \o "/spec/spec_helper.rb"))

SrcPaths(p, files) ==
    IF IsGem(p, files) THEN <<"lib", "">> ELSE <<"app", "lib">>

TestAnchor(p, files) == IF IsSpec(p, files) THEN "spec" ELSE "test"

\* the test paths below an anchor
AnchorPaths(anchor) == <<anchor, Join(anchor, "lib")>>

TestPaths(p, files) == AnchorPaths(TestAnchor(p, files))

\* variant of TestRegexes: the convention is not consulted
TestRegexes_AlwaysMinitest(p, files) == <<"_test$", "test_*">>

\* the compiled patterns, by name
\*   "_spec$" is `_spec\.rb$`, "_test$" is `_test\.rb$`,
\*   "test_*" is `test_[a-zA-Z0-9_]*\.rb$`
TestRegexes(p, files) ==
    IF IsSpec(p, files) THEN <<"_spec$">> ELSE <<"_test$", "test_*">>

\* variant of TestSuffix: the convention is not consulted
TestSuffix_AlwaysTest(p, files) == "_test.rb"

TestSuffix(p, files) == IF IsSpec(p, files) THEN "_spec.rb" ELSE "_test.rb"

Testify(p, files, path) == ReplaceFirst(path, ".rb", TestSuffix(p, files))

(***************************************************************************)
(* package regexp, for the three patterns above                            *)
(***************************************************************************)
WordChars ==
    { "a", "b", "c", "d", "e", "f", "g", "h", "i", "j", "k", "l", "m",
      "n", "o", "p", "q", "r", "s", "t", "u", "v", "w", "x", "y", "z",
      "A", "B", "C", "D", "E", "F", "G", "H", "I", "J", "K", "L", "M",
      "N", "O", "P", "Q", "R", "S", "T", "U", "V", "W", "X", "Y", "Z",
      "0", "1", "2", "3", "4", "5", "6", "7", "8", "9", "_" }

\* 1-based start of the leftmost match of the pattern in s, 0 when none;
\* every pattern ends in $, so a match always runs to the end of s
MatchStart(regex, s) ==
    IF regex = "_spec$"
    THEN IF HasSuffix(s, "_spec.rb") THEN Len(s) - 7 ELSE 0
    ELSE IF regex = "_test$"
    THEN IF HasSuffix(s, "_test.rb") THEN Len(s) - 7 ELSE 0
    ELSE First({ i \in 1..(Len(s) - 7) :
                   /\ SubSeq(s, i, i + 4) = "test_"
                   /\ HasSuffix(s, ".rb")
                   /\ \A j \in (i + 5)..(Len(s) - 3) :
                         SubSeq(s, j, j) \in WordChars })

MatchString(regex, s) == MatchStart(regex, s) # 0

ReplaceAllString(regex, s, repl) ==
    Splice(s, MatchStart(regex, s), Len(s), repl)

(***************************************************************************)
(* SourceFile                                                              *)
(***************************************************************************)
\* some pattern of regexes matches name
AnyMatch(regexes, name) ==
    \E k \in 1..Len(regexes) : MatchString(regexes[k], name)

IsTestFile(p, files, name) == AnyMatch(TestRegexes(p, files), name)

IsController(name) ==
    Contains(name, "app/controllers/") /\ HasSuffix(name, "_controller.rb")

IsRequestSpec(name) ==
    Contains(name, "spec/requests/") /\ HasSuffix(name, "_controller_spec.rb")

\* one fileExists call of a search
Probe(files, kind, target) ==
    [kind |-> kind, target |-> target, found |-> fileExists(files, target)]

NotFound == [result |-> "", probes |-> <<>>]

\* variant of UpToFirstHit: the candidates after the hit are probed too
UpToFirstHit_KeepsProbing(all, hit) ==
    IF hit = 0 THEN [result |-> "", probes |-> all]
    ELSE [result |-> all[hit].target, probes |-> all]

\* the probes up to the first one that found its target, and that target
UpToFirstHit(all, hit) ==
    IF hit = 0 THEN [result |-> "", probes |-> all]
    ELSE [result |-> all[hit].target, probes |-> SubSeq(all, 1, hit)]

FirstHit(all) == UpToFirstHit(all, First({ i \in 1..Len(all) : all[i].found }))

\* probe the candidates in order and return at the first one that exists
Search(p, files, kind, candidates) ==
    FirstHit([i \in 1..Len(candidates) |->
                Probe(files, kind, Join(p.Root, candidates[i]))])

\* the search that goes on after the search before it found nothing
Then(before, after) ==
    [result |-> after.result, probes |-> before.probes \o after.probes]

\* the candidate of one iteration of findAlternateSrc's loops
SrcCandidate(name, srcPath, testPath, regex) ==
    ReplaceAllString(regex, ReplaceFirst(name, testPath, srcPath), ".rb")

\* variant of SrcLoops: testPaths is the outer loop, srcPaths the middle
SrcLoops_TestOuter(name, srcPaths, testPaths, testRegexes) ==
    [x \in 1..(Len(testPaths) * Len(srcPaths) * Len(testRegexes)) |->
        SrcCandidate(name,
            srcPaths[(((x - 1) \div Len(testRegexes)) % Len(srcPaths)) + 1],
            testPaths[((x - 1) \div (Len(srcPaths) * Len(testRegexes))) + 1],
            testRegexes[((x - 1) % Len(testRegexes)) + 1])]

\* the loops of findAlternateSrc: srcPaths, then testPaths, then testRegexes
SrcLoops(name, srcPaths, testPaths, testRegexes) ==
    [x \in 1..(Len(srcPaths) * Len(testPaths) * Len(testRegexes)) |->
        SrcCandidate(name,
            srcPaths[((x - 1) \div (Len(testPaths) * Len(testRegexes))) + 1],
            testPaths[(((x - 1) \div Len(testRegexes)) % Len(testPaths)) + 1],
            testRegexes[((x - 1) % Len(testRegexes)) + 1])]

SrcCandidates(p, files, name) ==
    SrcLoops(name, SrcPaths(p, files), TestPaths(p, files), TestRegexes(p, files))

RequestSpecCandidate(name) ==
    ReplaceFirst(ReplaceFirst(name, "spec/requests/", "app/controllers/"),
                 "_controller_spec.rb", "_controller.rb")

\* the special case of findAlternateSrc
RequestSpecSearch(p, files, name) ==
    IF IsRequestSpec(name)
    THEN Search(p, files, "special", <<RequestSpecCandidate(name)>>)
    ELSE NotFound

\* the general case, after the special case
GeneralSrcSearch(p, files, name, special) ==
    IF special.result # "" THEN special
    ELSE Then(special, Search(p, files, "general", SrcCandidates(p, files, name)))

\* variant of findAlternateSrc: no request-spec special case
findAlternateSrc_NoRequestCase(p, files, name) ==
    Search(p, files, "general", SrcCandidates(p, files, name))

findAlternateSrc(p, files, name) ==
    GeneralSrcSearch(p, files, name, RequestSpecSearch(p, files, name))

\* variant of TestCandidate: the empty source path is not treated apart
TestCandidate_NoRootCase(p, files, name, testPath, srcPath) ==
    Testify(p, files, ReplaceFirst(name, srcPath, testPath))

\* variant of TestCandidate: only a leading path segment is replaced
TestCandidate_LeadingSegment(p, files, name, testPath, srcPath) ==
    Testify(p, files,
            IF srcPath = "" THEN Join(testPath, name)
            ELSE IF HasPrefix(name, srcPath \o "/")
            THEN testPath \o SubSeq(name, Len(srcPath) + 1, Len(name))
            ELSE name)

\* the candidate of one iteration of findAlternateTest's loops
TestCandidate(p, files, name, testPath, srcPath) ==
    Testify(p, files,
            IF srcPath = "" THEN Join(testPath, name)
            ELSE ReplaceFirst(name, srcPath, testPath))

\* variant of TestLoops: srcPaths is the outer loop
TestLoops_SrcOuter(p, files, name, testPaths, srcPaths) ==
    [x \in 1..(Len(srcPaths) * Len(testPaths)) |->
        TestCandidate(p, files, name,
                      testPaths[((x - 1) % Len(testPaths)) + 1],
                      srcPaths[((x - 1) \div Len(testPaths)) + 1])]

\* the loops of findAlternateTest: testPaths, then srcPaths
TestLoops(p, files, name, testPaths, srcPaths) ==
    [x \in 1..(Len(testPaths) * Len(srcPaths)) |->
        TestCandidate(p, files, name,
                      testPaths[((x - 1) \div Len(srcPaths)) + 1],
                      srcPaths[((x - 1) % Len(srcPaths)) + 1])]

TestCandidates(p, files, name) ==
    TestLoops(p, files, name, TestPaths(p, files), SrcPaths(p, files))

ControllerCandidate(name) ==
    ReplaceFirst(ReplaceFirst(name, "app/controllers/", "spec/requests/"),
                 "_controller.rb", "_controller_spec.rb")

\* the special case of findAlternateTest
ControllerSearch(p, files, name) ==
    IF IsController(name)
    THEN Search(p, files, "special", <<ControllerCandidate(name)>>)
    ELSE NotFound

\* variant of GeneralTestSearch: a controller is never searched further
GeneralTestSearch_NoFallThrough(p, files, name, special) ==
    IF special.result # "" \/ IsController(name) THEN special
    ELSE Then(special, Search(p, files, "general", TestCandidates(p, files, name)))

\* the general case, after the special case
GeneralTestSearch(p, files, name, special) ==
    IF special.result # "" THEN special
    ELSE Then(special, Search(p, files, "general", TestCandidates(p, files, name)))

\* variant of findAlternateTest: no controller special case
findAlternateTest_NoControllerCase(p, files, name) ==
    Search(p, files, "general", TestCandidates(p, files, name))

findAlternateTest(p, files, name) ==
    GeneralTestSearch(p, files, name, ControllerSearch(p, files, name))

AlternateFile(p, files, name) ==
    IF IsTestFile(p, files, name) THEN findAlternateSrc(p, files, name)
    ELSE findAlternateTest(p, files, name)

(***************************************************************************)
(* The state machine                                                       *)
(***************************************************************************)
Abs(rel) == DiskRoot \o "/" \o rel

AbsRubyFiles == { Abs(f) : f \in RubyFiles }

AbsFamilies == { { Abs(f) : f \in fam } : fam \in Families }

AllFiles == MarkerFiles \cup RubyFiles

\* no exit status: the process has not ended
NoStatus == -1

\* the error of Run when Path is empty
PathRequired == "path is required"

\* what cmd.Run() returns: nil, or the error of a zed that could not be
\* started or that ended with a failure
LaunchErrors == {"", "exec: \"zed\": executable file not found in $PATH",
                 "exit status 1"}

\* what every accessor returns for one project, filesystem and file name
Accessors(p, files, name) ==
    [IsGem |-> IsGem(p, files),
     IsSpec |-> IsSpec(p, files),
     SrcPaths |-> SrcPaths(p, files),
     TestAnchor |-> TestAnchor(p, files),
     TestPaths |-> TestPaths(p, files),
     TestRegexes |-> TestRegexes(p, files),
     TestSuffix |-> TestSuffix(p, files),
     IsTestFile |-> IsTestFile(p, files, name)]

\* no accessor has been called
NoDetection ==
    [IsGem |-> FALSE, IsSpec |-> FALSE, SrcPaths |-> <<>>, TestAnchor |-> "",
     TestPaths |-> <<>>, TestRegexes |-> <<>>, TestSuffix |-> "",
     IsTestFile |-> FALSE]

\* no AlternateFile call is under way
NoCall ==
    [at |-> "none", isTest |-> FALSE, testPaths |-> <<>>, srcPaths |-> <<>>,
     testRegexes |-> <<>>, done |-> 0, reads |-> <<>>]

Init ==
    /\ fs = {}
    /\ root = ""
    /\ filename = ""
    /\ result = ""
    /\ probes = <<>>
    /\ called = FALSE
    /\ origin = ""
    /\ pc = "idle"
    /\ err = ""
    /\ launched = <<>>
    /\ status = NoStatus
    /\ detected = NoDetection
    /\ runs = 0
    /\ denied = {}
    /\ call = NoCall

Forget ==
    /\ root' = ""
    /\ filename' = ""
    /\ result' = ""
    /\ probes' = <<>>
    /\ called' = FALSE
    /\ origin' = ""
    /\ pc' = "idle"
    /\ err' = ""
    /\ launched' = <<>>
    /\ status' = NoStatus
    /\ detected' = NoDetection
    /\ runs' = 0
    /\ call' = NoCall

\* another program creates a file of the project
CreateFile(rel) ==
    /\ ~called
    /\ pc = "idle"
    /\ Abs(rel) \notin fs
    /\ \/ rel \in MarkerFiles
       \/ /\ Cardinality(fs \cap AbsRubyFiles) < MaxFiles
          /\ \E fam \in AbsFamilies :
                (fs \cap AbsRubyFiles) \cup {Abs(rel)} \subseteq fam
    /\ fs' = fs \cup {Abs(rel)}
    /\ Forget
    /\ UNCHANGED denied

\* another program removes a file of the project
RemoveFile(rel) ==
    /\ ~called
    /\ pc = "idle"
    /\ Abs(rel) \in fs
    /\ fs' = fs \ {Abs(rel)}
    /\ Forget
    /\ UNCHANGED denied

\* the editor passes the path of a file of the project at hand
InProject(path) ==
    \E fam \in Families :
        /\ path \in fam
        /\ (fs \cap AbsRubyFiles) \subseteq { Abs(f) : f \in fam }

\* variant of Run: the probes of earlier calls are kept
Run_KeepsProbes(project, path, found, from) ==
    /\ root' = project.Root
    /\ filename' = path
    /\ result' = found.result
    /\ probes' = probes \o found.probes
    /\ called' = TRUE
    /\ origin' = from
    /\ pc' = "resolved"
    /\ err' = ""
    /\ launched' = <<>>
    /\ status' = NoStatus
    /\ detected' = Accessors(project, fs, path)
    /\ runs' = runs + 1
    /\ UNCHANGED <<fs, denied, call>>

\* Run with a path: NewProject, NewSourceFile and AlternateFile
Run(project, path, found, from) ==
    /\ root' = project.Root
    /\ filename' = path
    /\ result' = found.result
    /\ probes' = found.probes
    /\ called' = TRUE
    /\ origin' = from
    /\ pc' = "resolved"
    /\ err' = ""
    /\ launched' = <<>>
    /\ status' = NoStatus
    /\ detected' = Accessors(project, fs, path)
    /\ runs' = runs + 1
    /\ UNCHANGED <<fs, denied, call>>

\* lookup -r r -p path
Lookup(r, path) ==
    /\ ~called
    /\ pc = "idle"
    /\ InProject(path)
    /\ Run(NewProject(r), path, AlternateFile(NewProject(r), fs, path), "")

\* lookup -r r, without -p: Run returns at its first statement
LookupNoPath(r) ==
    /\ pc = "idle"
    /\ pc' = "returned"
    /\ err' = PathRequired
    /\ runs' = runs + 1
    /\ UNCHANGED <<fs, root, filename, result, probes, called, origin,
                   launched, status, detected, denied, call>>

\* variant of ReturnNil: no alternate file is reported as an error
ReturnNil_AsError ==
    /\ pc = "resolved"
    /\ result = ""
    /\ pc' = "returned"
    /\ err' = "exit status 1"
    /\ UNCHANGED <<fs, root, filename, result, probes, called, origin,
                   launched, status, detected, runs, denied, call>>

\* Run, alternateFile == "": return nil
ReturnNil ==
    /\ pc = "resolved"
    /\ result = ""
    /\ pc' = "returned"
    /\ err' = ""
    /\ UNCHANGED <<fs, root, filename, result, probes, called, origin,
                   launched, status, detected, runs, denied, call>>

\* variant of Launch: the error of cmd.Run is dropped
Launch_DropsError(failure) ==
    /\ pc = "resolved"
    /\ result # ""
    /\ launched' = Append(launched, [arg |-> result, failure |-> failure])
    /\ pc' = "returned"
    /\ err' = ""
    /\ UNCHANGED <<fs, root, filename, result, probes, called, origin,
                   status, detected, runs, denied, call>>

\* Run, alternateFile != "": return exec.Command("zed", alternateFile).Run()
Launch(failure) ==
    /\ pc = "resolved"
    /\ result # ""
    /\ launched' = Append(launched, [arg |-> result, failure |-> failure])
    /\ pc' = "returned"
    /\ err' = failure
    /\ UNCHANGED <<fs, root, filename, result, probes, called, origin,
                   status, detected, runs, denied, call>>

\* variant of Main: the error of Run is dropped
Main_IgnoresErr ==
    /\ pc = "returned"
    /\ pc' = "exited"
    /\ status' = 0
    /\ UNCHANGED <<fs, root, filename, result, probes, called, origin,
                   err, launched, detected, runs, denied, call>>

\* main: log.Fatal(err) ends the process with status 1, the end of main
\* with status 0
Main ==
    /\ pc = "returned"
    /\ pc' = "exited"
    /\ status' = IF err # "" THEN 1 ELSE 0
    /\ UNCHANGED <<fs, root, filename, result, probes, called, origin,
                   err, launched, detected, runs, denied, call>>

\* the path of an absolute path relative to the project root
Rel(abs) == SubSeq(abs, Len(root) + 2, Len(abs))

\* the editor has opened the result and the key is pressed again: a lookup
\* of the opened file, in the same project
ToggleBack ==
    /\ called
    /\ origin = ""
    /\ result # ""
    /\ pc = "exited"
    /\ status = 0
    /\ runs < MaxRuns
    /\ Run(NewProject(root), Rel(result),
           AlternateFile(NewProject(root), fs, Rel(result)), filename)

\* the same lookup is run again, by a new process, on the same filesystem
Repeat ==
    /\ called
    /\ pc = "exited"
    /\ runs < MaxRuns
    /\ Run(NewProject(root), filename,
           AlternateFile(NewProject(root), fs, filename), origin)

\* the process has ended; its Project and SourceFile are discarded
Exit ==
    /\ pc = "exited"
    /\ Forget
    /\ UNCHANGED <<fs, denied>>

Next ==
    \/ \E rel \in AllFiles : CreateFile(rel)
    \/ \E rel \in AllFiles : RemoveFile(rel)
    \/ \E r \in Roots, path \in Paths : Lookup(r, path)
    \/ \E r \in Roots : LookupNoPath(r)
    \/ ReturnNil
    \/ \E failure \in LaunchErrors : Launch(failure)
    \/ Main
    \/ ToggleBack
    \/ Repeat
    \/ Exit

Spec == Init /\ [][Next]_vars

TypeOK ==
    /\ fs \subseteq { Abs(f) : f \in AllFiles }
    /\ called \in BOOLEAN
    /\ called => filename \in AllFiles /\ root = DiskRoot
    /\ origin # "" => called /\ origin \in Paths
    /\ pc \in {"idle", "resolved", "returned", "exited"}
    /\ err \in LaunchErrors \cup {PathRequired}
    /\ Len(launched) <= 1
    /\ status \in {NoStatus, 0, 1}
    /\ called <=> (pc # "idle" /\ err # PathRequired)
    /\ runs \in 0..MaxRuns
    /\ (pc = "idle") <=> (runs = 0)

(***************************************************************************)
(* The accessors on their own: NewProject and NewSourceFile on a project   *)
(* made of the files that decide layout and convention, the way the tests  *)
(* of the repository set a temporary directory up and ask one accessor.    *)
(***************************************************************************)
\* helper, marker and manifest files at several depths
ConventionFiles ==
    { ".rspec", "spec/spec_helper.rb", "engine/spec/spec_helper.rb",
      "engines/core/spec/spec_helper.rb", "test/test_helper.rb",
      "my_gem.gemspec", "gems/other/other.gemspec" }

\* the file names handed to NewSourceFile
SourceNames ==
    { "lib/user.rb", "spec/user_spec.rb", "test/user_test.rb",
      "test/test_user.rb", "app/models/latest_order.rb",
      "test/test_my-gem.rb", "test_support/user.rb",
      "app/controllers/users_controller.rb" }

CreateConventionFile(rel) ==
    /\ detected = NoDetection
    /\ Abs(rel) \notin fs
    /\ fs' = fs \cup {Abs(rel)}
    /\ Forget
    /\ UNCHANGED denied

RemoveConventionFile(rel) ==
    /\ detected = NoDetection
    /\ Abs(rel) \in fs
    /\ fs' = fs \ {Abs(rel)}
    /\ Forget
    /\ UNCHANGED denied

\* NewProject(r), NewSourceFile(name, project) and a call of each accessor
Detect(r, name) ==
    /\ detected = NoDetection
    /\ root' = NewProject(r).Root
    /\ filename' = name
    /\ detected' = Accessors(NewProject(r), fs, name)
    /\ UNCHANGED <<fs, result, probes, called, origin, pc, err, launched,
                   status, runs, denied, call>>

\* the Project and the SourceFile are dropped
Discard ==
    /\ detected # NoDetection
    /\ Forget
    /\ UNCHANGED <<fs, denied>>

ProjectNext ==
    \/ \E rel \in ConventionFiles : CreateConventionFile(rel)
    \/ \E rel \in ConventionFiles : RemoveConventionFile(rel)
    \/ \E r \in Roots, name \in SourceNames : Detect(r, name)
    \/ Discard

ProjectSpec == Init /\ [][ProjectNext]_vars

(***************************************************************************)
(* Lookups on a filesystem whose probes fail: a stat that is refused, and  *)
(* a project in a directory whose name is not a well-formed glob pattern.  *)
(***************************************************************************)
\* the most paths whose stat is refused at one time
MaxDenied == 1

\* the directories a project may lie in; the second is a malformed pattern
DiskRoots == {"/p", "/q["}

FaultFiles ==
    { ".rspec", "engine/spec/spec_helper.rb", "my_gem.gemspec",
      "lib/user.rb", "spec/user_spec.rb", "spec/lib/user_spec.rb",
      "test/user_test.rb" }

FaultPaths == {"lib/user.rb", "spec/user_spec.rb"}

\* the absolute paths of the files that may exist
AbsFaultFiles == { dir \o "/" \o rel : dir \in DiskRoots, rel \in FaultFiles }

\* every file on disk lies in the project directory dir
OnlyIn(dir) == \A f \in fs : HasPrefix(f, dir \o "/")

CreateFaultFile(dir, rel) ==
    /\ pc = "idle"
    /\ OnlyIn(dir)
    /\ (dir \o "/" \o rel) \notin fs
    /\ fs' = fs \cup {dir \o "/" \o rel}
    /\ Forget
    /\ UNCHANGED denied

RemoveFaultFile(f) ==
    /\ pc = "idle"
    /\ f \in fs
    /\ fs' = fs \ {f}
    /\ denied' = denied \ {f}
    /\ Forget

\* the permissions change: stat of f is refused from now on
Deny(f) ==
    /\ pc = "idle"
    /\ f \in fs \ denied
    /\ Cardinality(denied) < MaxDenied
    /\ denied' = denied \cup {f}
    /\ Forget
    /\ UNCHANGED fs

\* the permissions change back
Allow(f) ==
    /\ pc = "idle"
    /\ f \in denied
    /\ denied' = denied \ {f}
    /\ Forget
    /\ UNCHANGED fs

\* lookup -r dir -p path in the project directory
FaultLookup(dir, path) ==
    /\ pc = "idle"
    /\ fs # {}
    /\ OnlyIn(dir)
    /\ Run(NewProject(dir), path, AlternateFile(NewProject(dir), fs, path), "")

FaultNext ==
    \/ \E dir \in DiskRoots, rel \in FaultFiles : CreateFaultFile(dir, rel)
    \/ \E f \in AbsFaultFiles : RemoveFaultFile(f)
    \/ \E f \in AbsFaultFiles : Deny(f)
    \/ \E f \in AbsFaultFiles : Allow(f)
    \/ \E dir \in DiskRoots, path \in FaultPaths : FaultLookup(dir, path)
    \/ ReturnNil
    \/ \E failure \in LaunchErrors : Launch(failure)
    \/ Main
    \/ Exit

FaultSpec == Init /\ [][FaultNext]_vars

(***************************************************************************)
(* One AlternateFile call step by step, each call of an accessor of        *)
(* Project a step of its own, while another program creates and removes    *)
(* files of the project.                                                   *)
(***************************************************************************)
RaceFiles ==
    { ".rspec", "spec/spec_helper.rb", "my_gem.gemspec", "lib/user.rb",
      "spec/user_spec.rb", "test/user_spec.rb" }

RacePaths == {"lib/user.rb", "spec/user_spec.rb"}

\* the Project of the call under way
Callee == NewProject(root)

\* one call of an accessor: which, what it asked the filesystem, the answer
Read(accessor, about, answer) ==
    [accessor |-> accessor, about |-> about, answer |-> answer]

\* another program creates a file
TouchFile(rel) ==
    /\ Abs(rel) \notin fs
    /\ fs' = fs \cup {Abs(rel)}
    /\ UNCHANGED <<root, filename, result, probes, called, origin, pc, err,
                   launched, status, detected, runs, denied, call>>

\* another program removes a file
UnlinkFile(rel) ==
    /\ Abs(rel) \in fs
    /\ fs' = fs \ {Abs(rel)}
    /\ UNCHANGED <<root, filename, result, probes, called, origin, pc, err,
                   launched, status, detected, runs, denied, call>>

\* Run: NewProject, NewSourceFile, and AlternateFile is entered
CallAlternateFile(r, path) ==
    /\ pc = "idle"
    /\ call.at = "none"
    /\ root' = NewProject(r).Root
    /\ filename' = path
    /\ call' = [call EXCEPT !.at = "IsTestFile"]
    /\ UNCHANGED <<fs, result, probes, called, origin, pc, err, launched,
                   status, detected, runs, denied>>

\* AlternateFile: s.IsTestFile(), which calls TestRegexes
CallIsTestFile ==
    /\ call.at = "IsTestFile"
    /\ call' = [call EXCEPT
                  !.isTest = IsTestFile(Callee, fs, filename),
                  !.reads = Append(@, Read("IsTestFile", "IsSpec",
                                           IsSpec(Callee, fs))),
                  !.at = "special"]
    /\ UNCHANGED <<fs, root, filename, result, probes, called, origin, pc,
                   err, launched, status, detected, runs, denied>>

\* the special case applies to the file of the call
SpecialApplies ==
    IF call.isTest THEN IsRequestSpec(filename) ELSE IsController(filename)

SpecialCandidate ==
    IF call.isTest THEN RequestSpecCandidate(filename)
    ELSE ControllerCandidate(filename)

\* the call returns target
ReturnTarget(probe, reads) ==
    /\ probes' = Append(probes, probe)
    /\ result' = probe.target
    /\ called' = TRUE
    /\ pc' = "resolved"
    /\ call' = [call EXCEPT !.at = "returned", !.reads = reads]

\* the special case: not applicable, or its candidate is probed
CallSpecial ==
    /\ call.at = "special"
    /\ IF SpecialApplies /\ fileExists(fs, Join(root, SpecialCandidate))
       THEN ReturnTarget(Probe(fs, "special", Join(root, SpecialCandidate)),
                         call.reads)
       ELSE /\ probes' = IF SpecialApplies
                         THEN Append(probes, Probe(fs, "special",
                                                   Join(root, SpecialCandidate)))
                         ELSE probes
            /\ call' = [call EXCEPT
                          !.at = IF call.isTest THEN "SrcPaths" ELSE "TestPaths"]
            /\ UNCHANGED <<result, called, pc>>
    /\ UNCHANGED <<fs, root, filename, origin, err, launched, status,
                   detected, runs, denied>>

\* testPaths := s.Project.TestPaths()
CallTestPaths ==
    /\ call.at = "TestPaths"
    /\ call' = [call EXCEPT
                  !.testPaths = TestPaths(Callee, fs),
                  !.reads = Append(@, Read("TestPaths", "IsSpec",
                                           IsSpec(Callee, fs))),
                  !.at = IF call.isTest THEN "TestRegexes" ELSE "SrcPaths"]
    /\ UNCHANGED <<fs, root, filename, result, probes, called, origin, pc,
                   err, launched, status, detected, runs, denied>>

\* srcPaths := s.Project.SrcPaths()
CallSrcPaths ==
    /\ call.at = "SrcPaths"
    /\ call' = [call EXCEPT
                  !.srcPaths = SrcPaths(Callee, fs),
                  !.reads = Append(@, Read("SrcPaths", "IsGem",
                                           IsGem(Callee, fs))),
                  !.at = IF call.isTest THEN "TestPaths" ELSE "loop"]
    /\ UNCHANGED <<fs, root, filename, result, probes, called, origin, pc,
                   err, launched, status, detected, runs, denied>>

\* testRegexes := s.Project.TestRegexes()
CallTestRegexes ==
    /\ call.at = "TestRegexes"
    /\ call' = [call EXCEPT
                  !.testRegexes = TestRegexes(Callee, fs),
                  !.reads = Append(@, Read("TestRegexes", "IsSpec",
                                           IsSpec(Callee, fs))),
                  !.at = "loop"]
    /\ UNCHANGED <<fs, root, filename, result, probes, called, origin, pc,
                   err, launched, status, detected, runs, denied>>

\* the number of iterations of the loops of the call
Iterations ==
    IF call.isTest
    THEN Len(call.srcPaths) * Len(call.testPaths) * Len(call.testRegexes)
    ELSE Len(call.testPaths) * Len(call.srcPaths)

\* the candidate of iteration x of the loops, from the slices the call holds;
\* findAlternateTest calls Testify, and so TestSuffix, in the iteration
LoopCandidate(x) ==
    IF call.isTest
    THEN SrcLoops(filename, call.srcPaths, call.testPaths, call.testRegexes)[x]
    ELSE TestLoops(Callee, fs, filename, call.testPaths, call.srcPaths)[x]

\* what the iteration asks of the project: findAlternateSrc nothing
LoopReads ==
    IF call.isTest THEN call.reads
    ELSE Append(call.reads, Read("TestSuffix", "IsSpec", IsSpec(Callee, fs)))

\* one iteration of the loops: the candidate, and the probe of its target
CallIteration ==
    /\ call.at = "loop"
    /\ call.done < Iterations
    /\ IF fileExists(fs, Join(root, LoopCandidate(call.done + 1)))
       THEN ReturnTarget(Probe(fs, "general",
                               Join(root, LoopCandidate(call.done + 1))),
                         LoopReads)
       ELSE /\ probes' = Append(probes, Probe(fs, "general",
                                    Join(root, LoopCandidate(call.done + 1))))
            /\ call' = [call EXCEPT !.done = @ + 1, !.reads = LoopReads]
            /\ UNCHANGED <<result, called, pc>>
    /\ UNCHANGED <<fs, root, filename, origin, err, launched, status,
                   detected, runs, denied>>

\* the loops end without a hit: return ""
CallReturnsEmpty ==
    /\ call.at = "loop"
    /\ call.done = Iterations
    /\ result' = ""
    /\ called' = TRUE
    /\ pc' = "resolved"
    /\ call' = [call EXCEPT !.at = "returned"]
    /\ UNCHANGED <<fs, root, filename, probes, origin, err, launched, status,
                   detected, runs, denied>>

\* the process ends
CallEnds ==
    /\ call.at = "returned"
    /\ Forget
    /\ UNCHANGED <<fs, denied>>

RaceNext ==
    \/ \E rel \in RaceFiles : TouchFile(rel)
    \/ \E rel \in RaceFiles : UnlinkFile(rel)
    \/ \E path \in RacePaths : CallAlternateFile(DiskRoot, path)
    \/ CallIsTestFile
    \/ CallSpecial
    \/ CallTestPaths
    \/ CallSrcPaths
    \/ CallTestRegexes
    \/ CallIteration
    \/ CallReturnsEmpty
    \/ CallEnds

RaceSpec == Init /\ [][RaceNext]_vars

(***************************************************************************)
(* Properties.  They speak about the state a lookup leaves behind: the     *)
(* filesystem it ran on, its arguments, its result and its probes.         *)
(***************************************************************************)
Project == [Root |-> root]

\* the absolute path of a file of the project
InRoot(rel) == Join(root, rel)

OnDisk(rel) == StatOk(fs, InRoot(rel))

IsSourceLookup == called /\ ~IsTestFile(Project, fs, filename)

IsTestLookup == called /\ IsTestFile(Project, fs, filename)

IsGeneral(pr) == pr.kind = "general"

IsSpecial(pr) == pr.kind = "special"

GeneralProbes == SelectSeq(probes, IsGeneral)

SpecialProbes == SelectSeq(probes, IsSpecial)

\* the special case did not end the search
SpecialDidNotFire == \A i \in 1..Len(probes) : IsSpecial(probes[i]) => ~probes[i].found

\* every path a lookup of filename can generate, whatever the loop order
AllCandidates ==
    LET srcPaths == SrcPaths(Project, fs)
        testPaths == TestPaths(Project, fs)
        testRegexes == TestRegexes(Project, fs)
    IN  { ControllerCandidate(filename), RequestSpecCandidate(filename) }
        \cup { TestCandidate(Project, fs, filename, testPaths[t], srcPaths[s]) :
                 t \in 1..Len(testPaths), s \in 1..Len(srcPaths) }
        \cup { SrcCandidate(filename, srcPaths[x[1]], testPaths[x[2]], testRegexes[x[3]]) :
                 x \in (1..Len(srcPaths)) \X (1..Len(testPaths)) \X (1..Len(testRegexes)) }

\* C1: a non-empty result of AlternateFile is root joined with a generated
\* candidate that this call probed and found on disk; a path that was not
\* probed, or whose probe failed, is never returned
C1_ResultIsProbedExistingCandidate ==
    (called /\ result # "") =>
        /\ \E c \in AllCandidates : result = Join(root, c)
        /\ StatOk(fs, result)
        /\ \E i \in 1..Len(probes) : probes[i].target = result /\ probes[i].found
        /\ \A i \in 1..Len(probes) : probes[i].target = result => probes[i].found

\* a lookup that returned a candidate after an earlier probe failed
C1_Witness ==
    /\ called
    /\ result # ""
    /\ Len(probes) >= 2
    /\ ~probes[1].found

\* C2: round trip.  When the lookup of an existing source file s returned t,
\* the lookup of t returns s: toggling twice returns to the start
C2_RoundTrip ==
    (called /\ origin # "" /\ ~IsTestFile(Project, fs, origin) /\ OnDisk(origin)) =>
        result = InRoot(origin)

\* the candidate of the pair (testPaths[t], srcPaths[s]), as an absolute path
C3_Candidate(t, s) ==
    InRoot(TestCandidate(Project, fs, filename,
                         TestPaths(Project, fs)[t], SrcPaths(Project, fs)[s]))

\* the candidates in the order (1,1), (1,2), (2,1), (2,2)
C3_Order ==
    [i \in 1..4 |-> C3_Candidate(((i - 1) \div 2) + 1, ((i - 1) % 2) + 1)]

\* C3: when the controller special case does not fire, findAlternateTest
\* probes (testDirs[0],srcDirs[0]), (testDirs[0],srcDirs[1]),
\* (testDirs[1],srcDirs[0]), (testDirs[1],srcDirs[1]) in this order and returns
\* the first that exists: nothing earlier exists, nothing later is probed
C3_TestSearchOrder ==
    (IsSourceLookup /\ SpecialDidNotFire) =>
        /\ Len(GeneralProbes) <= 4
        /\ \A i \in 1..Len(GeneralProbes) :
              /\ GeneralProbes[i].target = C3_Order[i]
              /\ GeneralProbes[i].found = StatOk(fs, C3_Order[i])
              /\ i < Len(GeneralProbes) => ~StatOk(fs, C3_Order[i])
        /\ result # "" =>
              /\ result = GeneralProbes[Len(GeneralProbes)].target
              /\ StatOk(fs, result)
        /\ result = "" =>
              /\ Len(GeneralProbes) = 4
              /\ \A i \in 1..4 : ~StatOk(fs, C3_Order[i])

\* a source lookup that returned the last pair's candidate while the
\* candidates of the first and the last pair differ
C3_Witness ==
    /\ IsSourceLookup
    /\ SpecialDidNotFire
    /\ Len(GeneralProbes) = 4
    /\ result = C3_Order[4]
    /\ C3_Order[2] # C3_Order[3]

\* C4: when the request-spec special case does not fire, findAlternateSrc
\* probes with sourceDirectories outermost, testDirectories in the middle and
\* testFileMatchers innermost and returns the first candidate that exists; in a
\* descriptive-spec application with app/models/user.rb and lib/models/user.rb,
\* spec/models/user_spec.rb resolves to the one under app/
C4_SrcSearchOrder ==
    (IsTestLookup /\ SpecialDidNotFire) =>
        LET srcPaths == SrcPaths(Project, fs)
            testPaths == TestPaths(Project, fs)
            testRegexes == TestRegexes(Project, fs)
            nT == Len(testPaths)
            nR == Len(testRegexes)
            At(s, t, k) == (s - 1) * nT * nR + (t - 1) * nR + k
            Cand(s, t, k) == InRoot(SrcCandidate(filename, srcPaths[s],
                                                 testPaths[t], testRegexes[k]))
        IN  /\ \A s \in 1..Len(srcPaths), t \in 1..nT, k \in 1..nR :
                  /\ At(s, t, k) <= Len(GeneralProbes) =>
                        GeneralProbes[At(s, t, k)].target = Cand(s, t, k)
                  /\ At(s, t, k) < Len(GeneralProbes) => ~StatOk(fs, Cand(s, t, k))
                  /\ result = "" => ~StatOk(fs, Cand(s, t, k))
            /\ result # "" =>
                  /\ result = GeneralProbes[Len(GeneralProbes)].target
                  /\ StatOk(fs, result)
            /\ result = "" => Len(GeneralProbes) = Len(srcPaths) * nT * nR
            /\ ( /\ filename = "spec/models/user_spec.rb"
                 /\ ~IsGem(Project, fs)
                 /\ OnDisk("app/models/user.rb")
                 /\ OnDisk("lib/models/user.rb") )
               => result = InRoot("app/models/user.rb")

\* the test file of a model that exists under app/ and under lib/
C4_Witness ==
    /\ IsTestLookup
    /\ filename = "spec/models/user_spec.rb"
    /\ ~IsGem(Project, fs)
    /\ OnDisk("app/models/user.rb")
    /\ OnDisk("lib/models/user.rb")
    /\ result = InRoot("app/models/user.rb")

\* a prefix/suffix-convention application
IsMinitestApp == ~IsSpec(Project, fs) /\ ~IsGem(Project, fs)

\* C5: in a prefix/suffix-convention application app/models/user.rb resolves to
\* test/models/user_test.rb when that exists, else to test/models/test_user.rb
\* when that exists
C5_SuffixThenPrefix ==
    (called /\ filename = "app/models/user.rb" /\ IsMinitestApp) =>
        /\ OnDisk("test/models/user_test.rb") =>
              result = InRoot("test/models/user_test.rb")
        /\ (~OnDisk("test/models/user_test.rb") /\ OnDisk("test/models/test_user.rb")) =>
              result = InRoot("test/models/test_user.rb")

\* C6: in a prefix/suffix-convention project test/test_calculator.rb resolves
\* to lib/calculator.rb when lib/calculator.rb exists
C6_PrefixTestTogglesBack ==
    (called /\ filename = "test/test_calculator.rb"
            /\ ~IsSpec(Project, fs) /\ OnDisk("lib/calculator.rb")) =>
        result = InRoot("lib/calculator.rb")

\* the request spec of the controller filename: spec/requests/, the same
\* subpath, _controller_spec.rb
C7_RequestSpec ==
    "spec/requests/" \o SubSeq(filename, 17, Len(filename) - 14)
                     \o "_controller_spec.rb"

C7_IsControllerPath ==
    /\ HasPrefix(filename, "app/controllers/")
    /\ HasSuffix(filename, "_controller.rb")

C7_ReturnsRequestSpec ==
    /\ result = InRoot(C7_RequestSpec)
    /\ GeneralProbes = <<>>
    /\ Len(probes) = 1

\* C7 as stated: for any path under app/controllers/ ending in
\* _controller.rb whose request spec exists, AlternateFile returns the request
\* spec and probes no general-rule candidate
C7_AnyControllerPath ==
    (called /\ C7_IsControllerPath /\ OnDisk(C7_RequestSpec)) =>
        C7_ReturnsRequestSpec

\* C7 amended: the same for a path that is classified as a source file and
\* in which _controller.rb occurs only at the end
C7_SourceControllerPath ==
    ( /\ IsSourceLookup
      /\ C7_IsControllerPath
      /\ Index(filename, "_controller.rb") = Len(filename) - 13
      /\ OnDisk(C7_RequestSpec) ) =>
        C7_ReturnsRequestSpec

\* a controller whose request spec and whose generic controller spec exist
C7_Witness ==
    /\ IsSourceLookup
    /\ filename = "app/controllers/api/v1/foos_controller.rb"
    /\ OnDisk("spec/requests/api/v1/foos_controller_spec.rb")
    /\ OnDisk("spec/controllers/api/v1/foos_controller_spec.rb")
    /\ result = InRoot("spec/requests/api/v1/foos_controller_spec.rb")

\* the controller of the request spec filename: app/controllers/, the same
\* subpath, _controller.rb
C8_Controller ==
    "app/controllers/" \o SubSeq(filename, 15, Len(filename) - 19)
                       \o "_controller.rb"

C8_IsRequestSpecPath ==
    /\ HasPrefix(filename, "spec/requests/")
    /\ HasSuffix(filename, "_controller_spec.rb")

C8_ReturnsController ==
    /\ result = InRoot(C8_Controller)
    /\ GeneralProbes = <<>>
    /\ Len(probes) = 1

\* a request spec that does not end in _controller_spec.rb, or a spec under
\* spec/controllers/
C8_OtherSpecPath ==
    \/ HasPrefix(filename, "spec/requests/") /\ ~HasSuffix(filename, "_controller_spec.rb")
    \/ HasPrefix(filename, "spec/controllers/")

\* C8 as stated: for any path under spec/requests/ ending in
\* _controller_spec.rb whose controller exists, AlternateFile returns the
\* controller, before every general-rule candidate; other request specs and
\* the specs under spec/controllers/ do not trigger the special case
C8_AnyRequestSpecPath ==
    /\ (called /\ C8_IsRequestSpecPath /\ OnDisk(C8_Controller)) =>
          C8_ReturnsController
    /\ (IsTestLookup /\ C8_OtherSpecPath) => SpecialProbes = <<>>

\* C8 amended: the same for a path that is classified as a test file and in
\* which _controller_spec.rb occurs only at the end
C8_TestRequestSpecPath ==
    /\ ( /\ IsTestLookup
         /\ C8_IsRequestSpecPath
         /\ Index(filename, "_controller_spec.rb") = Len(filename) - 18
         /\ OnDisk(C8_Controller) ) =>
          C8_ReturnsController
    /\ (IsTestLookup /\ C8_OtherSpecPath) => SpecialProbes = <<>>

\* a request spec whose controller and whose first general-rule candidate
\* both exist
C8_Witness ==
    /\ IsTestLookup
    /\ filename = "spec/requests/api/v1/foos_controller_spec.rb"
    /\ OnDisk("app/controllers/api/v1/foos_controller.rb")
    /\ OnDisk("app/requests/api/v1/foos_controller.rb")
    /\ result = InRoot("app/controllers/api/v1/foos_controller.rb")

\* a library layout with the descriptive-spec convention
IsRspecGem == IsGem(Project, fs) /\ IsSpec(Project, fs)

\* C9 as stated: in a descriptive-spec library lib/user.rb resolves to
\* spec/lib/user_spec.rb whenever that exists, whatever else exists, and never
\* when it does not; spec/lib/user_spec.rb resolves to lib/user.rb when
\* lib/user.rb exists
C9_WhateverElseExists ==
    (called /\ IsRspecGem) =>
        /\ filename = "lib/user.rb" =>
              /\ OnDisk("spec/lib/user_spec.rb") =>
                    result = InRoot("spec/lib/user_spec.rb")
              /\ ~OnDisk("spec/lib/user_spec.rb") =>
                    result # InRoot("spec/lib/user_spec.rb")
        /\ (filename = "spec/lib/user_spec.rb" /\ OnDisk("lib/user.rb")) =>
              result = InRoot("lib/user.rb")

\* C9 amended: lib/user.rb resolves to spec/lib/user_spec.rb whenever that
\* exists and spec/user_spec.rb does not, and never when it does not exist;
\* spec/lib/user_spec.rb resolves to lib/user.rb when lib/user.rb exists and
\* lib/lib/user.rb does not
C9_UnlessEarlierCandidateExists ==
    (called /\ IsRspecGem) =>
        /\ filename = "lib/user.rb" =>
              /\ (OnDisk("spec/lib/user_spec.rb") /\ ~OnDisk("spec/user_spec.rb")) =>
                    result = InRoot("spec/lib/user_spec.rb")
              /\ ~OnDisk("spec/lib/user_spec.rb") =>
                    result # InRoot("spec/lib/user_spec.rb")
        /\ ( /\ filename = "spec/lib/user_spec.rb"
             /\ OnDisk("lib/user.rb")
             /\ ~OnDisk("lib/lib/user.rb") ) =>
              result = InRoot("lib/user.rb")

\* lib/user.rb was toggled to spec/lib/user_spec.rb and back
C9_Witness ==
    /\ called
    /\ IsRspecGem
    /\ origin = "lib/user.rb"
    /\ filename = "spec/lib/user_spec.rb"
    /\ result = InRoot("lib/user.rb")

\* C10 as stated: in a descriptive-spec library the root file my_gem.rb
\* resolves to spec/my_gem_spec.rb whenever that exists, and
\* spec/my_gem_spec.rb resolves to my_gem.rb when no lib/my_gem.rb exists
C10_GemRootFile ==
    (called /\ IsRspecGem) =>
        /\ (filename = "my_gem.rb" /\ OnDisk("spec/my_gem_spec.rb")) =>
              result = InRoot("spec/my_gem_spec.rb")
        /\ ( /\ filename = "spec/my_gem_spec.rb"
             /\ OnDisk("my_gem.rb")
             /\ ~OnDisk("lib/my_gem.rb") ) =>
              result = InRoot("my_gem.rb")

\* C10 amended: my_gem.rb resolves to spec/my_gem_spec.rb whenever that
\* exists and no my_gem_spec.rb exists in the project root;
\* spec/my_gem_spec.rb resolves to my_gem.rb when my_gem.rb exists and neither
\* lib/my_gem.rb nor spec/my_gem.rb exists
C10_GemRootFileUnlessEarlierCandidate ==
    (called /\ IsRspecGem) =>
        /\ ( /\ filename = "my_gem.rb"
             /\ OnDisk("spec/my_gem_spec.rb")
             /\ ~OnDisk("my_gem_spec.rb") ) =>
              result = InRoot("spec/my_gem_spec.rb")
        /\ ( /\ filename = "spec/my_gem_spec.rb"
             /\ OnDisk("my_gem.rb")
             /\ ~OnDisk("lib/my_gem.rb")
             /\ ~OnDisk("spec/my_gem.rb") ) =>
              result = InRoot("my_gem.rb")

\* my_gem.rb was toggled to spec/my_gem_spec.rb and back
C10_Witness ==
    /\ called
    /\ IsRspecGem
    /\ origin = "my_gem.rb"
    /\ filename = "spec/my_gem_spec.rb"
    /\ result = InRoot("my_gem.rb")

\* the elements of a sequence
Range(seq) == { seq[i] : i \in 1..Len(seq) }

\* Run has returned to main
Returned == pc \in {"returned", "exited"}

\* the candidates the lookup of filename generates
C11_Generated ==
    IF detected.IsTestFile
    THEN Range(SrcCandidates(Project, fs, filename))
         \cup (IF IsRequestSpec(filename)
               THEN {RequestSpecCandidate(filename)} ELSE {})
    ELSE Range(TestCandidates(Project, fs, filename))
         \cup (IF IsController(filename)
               THEN {ControllerCandidate(filename)} ELSE {})

\* C11: when none of the candidates generated for the path exists on disk,
\* AlternateFile returns the empty string, Run returns nil and runs no editor,
\* and the process ends with status 0, the status of a lookup that found and
\* opened its alternate
C11_NoAlternateIsSuccess ==
    (called /\ \A c \in C11_Generated : ~StatOk(fs, InRoot(c))) =>
        /\ result = ""
        /\ launched = <<>>
        /\ Returned => err = ""
        /\ pc = "exited" => status = 0

\* a process that probed several candidates, found none and has ended
C11_Witness ==
    /\ called
    /\ fs # {}
    /\ Len(probes) >= 4
    /\ result = ""
    /\ pc = "exited"
    /\ status = 0

\* a lookup without a path
NoPath == pc # "idle" /\ ~called

\* a lookup with a path that found no alternate
NoAlternate == called /\ result = "" /\ Returned

\* C12: with an empty path Run returns an error before any filesystem probe
\* and before any editor launch, and main ends the process with a non-zero
\* status; a lookup that found no alternate returns nil and ends with status 0,
\* so the two outcomes differ
C12_EmptyPathFails ==
    /\ NoPath =>
          /\ Returned
          /\ err # ""
          /\ probes = <<>>
          /\ launched = <<>>
          /\ pc = "exited" => status # 0
    /\ NoAlternate =>
          /\ err = ""
          /\ pc = "exited" => status = 0

\* a lookup without a path has ended, on a project that holds files
C12_Witness ==
    /\ NoPath
    /\ fs # {}
    /\ pc = "exited"
    /\ status = 1

\* the accessors have been called on the filesystem as it is
Detected == detected # NoDetection

\* the path of a file on disk relative to the project root
BelowRoot(f) == SubSeq(f, Len(root) + 2, Len(f))

\* the final segment of a path
RECURSIVE Base(_)
Base(path) ==
    IF Contains(path, "/") THEN Base(After(path, Index(path, "/"))) ELSE path

\* a file named spec_helper.rb lies somewhere below the root
C13_HelperAnywhere ==
    \E f \in fs : HasPrefix(f, root \o "/") /\ Base(f) = "spec_helper.rb"

\* C13: IsSpec is true exactly when spec/spec_helper.rb exists in the root,
\* or .rspec exists in the root, or a spec_helper.rb exists anywhere below the
\* root, at any depth; when it is false the project uses the test/ convention
C13_IsSpecIffAnyHelper ==
    Detected =>
        /\ detected.IsSpec <=>
              \/ OnDisk("spec/spec_helper.rb")
              \/ OnDisk(".rspec")
              \/ C13_HelperAnywhere
        /\ ~detected.IsSpec =>
              /\ detected.TestAnchor = "test"
              /\ detected.TestSuffix = "_test.rb"
              /\ detected.TestRegexes = <<"_test$", "test_*">>

\* a name matching *.gemspec lies directly in the project root
C14_ManifestInRoot ==
    \E f \in fs :
        /\ HasPrefix(f, root \o "/")
        /\ ~Contains(BelowRoot(f), "/")
        /\ HasSuffix(f, ".gemspec")

\* C14: IsGem is true exactly when a *.gemspec lies directly in the project
\* root; SrcPaths is <<"lib", "">> when IsGem is true and <<"app", "lib">>
\* otherwise
C14_IsGemAndSrcPaths ==
    Detected =>
        /\ detected.IsGem <=> C14_ManifestInRoot
        /\ detected.SrcPaths =
              IF detected.IsGem THEN <<"lib", "">> ELSE <<"app", "lib">>

\* the accessors ran on a project with a manifest in its root
C14_Witness ==
    /\ Detected
    /\ Abs("my_gem.gemspec") \in fs
    /\ detected.IsGem
    /\ detected.SrcPaths = <<"lib", "">>

\* C15: classification looks at the final path segment only: with the
\* descriptive-spec convention a path is a test file exactly when its final
\* segment ends in _spec.rb, with the other convention exactly when its final
\* segment ends in _test.rb or begins with test_; any other path is a source
\* file
C15_ClassifiedByFinalSegment ==
    Detected =>
        (detected.IsTestFile <=>
            IF detected.IsSpec
            THEN HasSuffix(Base(filename), "_spec.rb")
            ELSE \/ HasSuffix(Base(filename), "_test.rb")
                 \/ HasPrefix(Base(filename), "test_"))

\* C16: in every filesystem state SrcPaths and TestPaths have two entries
\* each, TestPaths is <<anchor, anchor/lib>> with anchor "spec" when IsSpec and
\* "test" otherwise and holds no empty string, TestRegexes has one entry when
\* IsSpec and two otherwise, and TestSuffix is "_spec.rb" when IsSpec and
\* "_test.rb" otherwise
C16_ConventionValues ==
    Detected =>
        /\ Len(detected.SrcPaths) = 2
        /\ Len(detected.TestPaths) = 2
        /\ detected.TestAnchor = (IF detected.IsSpec THEN "spec" ELSE "test")
        /\ detected.TestPaths =
              <<detected.TestAnchor, detected.TestAnchor \o "/lib">>
        /\ "" \notin Range(detected.TestPaths)
        /\ Len(detected.TestRegexes) = (IF detected.IsSpec THEN 1 ELSE 2)
        /\ detected.TestSuffix =
              (IF detected.IsSpec THEN "_spec.rb" ELSE "_test.rb")

\* the accessors ran on a gem that uses the descriptive-spec convention
C16_Witness ==
    /\ Detected
    /\ detected.IsSpec
    /\ detected.IsGem
    /\ detected.SrcPaths = <<"lib", "">>
    /\ detected.TestPaths = <<"spec", "spec/lib">>

\* a new process runs the lookup the process before it ran, with the same
\* root and path, on the same filesystem
SameLookupAgain ==
    /\ called
    /\ pc = "exited"
    /\ pc' = "resolved"
    /\ root' = root
    /\ filename' = filename
    /\ fs' = fs

C18_LaunchOnceAfterResolution ==
    /\ pc \in {"idle", "resolved"} => launched = <<>>
    /\ (called /\ Returned) =>
          IF result # ""
          THEN /\ Len(launched) = 1
               /\ launched[1].arg = result
               /\ err = launched[1].failure
          ELSE launched = <<>>

\* a process whose editor launch failed has ended
C18_Witness ==
    /\ called
    /\ pc = "exited"
    /\ Len(launched) = 1
    /\ launched[1].arg = result
    /\ launched[1].failure # ""
    /\ status = 1

C20_Controller == "app/controllers/users_controller.rb"

C20_RequestSpec == "spec/requests/users_controller_spec.rb"

C20_ControllerSpec == "spec/controllers/users_controller_spec.rb"

\* C20: when the candidate of the controller or request-spec special case
\* does not exist, the search goes on with the general rule instead of
\* returning empty.  In a descriptive-spec application without
\* spec/requests/users_controller_spec.rb, app/controllers/users_controller.rb
\* resolves to spec/controllers/users_controller_spec.rb when that exists, and
\* that spec resolves back to the controller
C20_SpecialCaseFallsThrough ==
    /\ (called /\ SpecialProbes # <<>> /\ SpecialDidNotFire) =>
          /\ GeneralProbes # <<>>
          /\ result # "" => IsGeneral(probes[Len(probes)])
    /\ (called /\ detected.IsSpec /\ ~detected.IsGem /\ ~OnDisk(C20_RequestSpec)) =>
          /\ (filename = C20_Controller /\ OnDisk(C20_ControllerSpec)) =>
                /\ probes[1] = [kind |-> "special",
                                target |-> InRoot(C20_RequestSpec),
                                found |-> FALSE]
                /\ result = InRoot(C20_ControllerSpec)
          /\ (filename = C20_ControllerSpec /\ OnDisk(C20_Controller)) =>
                result = InRoot(C20_Controller)

\* the controller was toggled to its controller spec and back
C20_Witness ==
    /\ called
    /\ detected.IsSpec
    /\ ~detected.IsGem
    /\ ~OnDisk(C20_RequestSpec)
    /\ origin = C20_Controller
    /\ filename = C20_ControllerSpec
    /\ result = InRoot(C20_Controller)

\* the number of candidates of the general rule for the lookup of filename
C19_Candidates ==
    IF detected.IsTestFile
    THEN Len(SrcCandidates(Project, fs, filename))
    ELSE Len(TestCandidates(Project, fs, filename))

\* a clue of IsSpec holds: .rspec can be stat'ed, or the directory listing
\* shows engine/spec/spec_helper.rb
C19_Indicator ==
    \/ InRoot(".rspec") \in fs \ denied
    \/ InRoot("engine/spec/spec_helper.rb") \in fs

\* C19: a failing probe is never surfaced.  A candidate whose stat fails
\* counts as absent and the search goes on with the next candidate; a glob
\* error makes IsGem false; a clue of IsSpec whose glob fails or finds
\* nothing is skipped and the other clues still count; no accessor and no
\* resolver call returns an error or stops early
C19_ProbeFailuresSwallowed ==
    called =>
        /\ \A i \in 1..Len(probes) :
              probes[i].target \in denied =>
                  /\ ~probes[i].found
                  /\ i < Len(probes) \/ result = ""
        /\ result \notin denied
        /\ result = "" => Len(GeneralProbes) = C19_Candidates
        /\ detected.IsGem <=>
              /\ ~BadPattern(root \o "/*.gemspec")
              /\ InRoot("my_gem.gemspec") \in fs
        /\ detected.IsSpec <=>
              /\ ~BadPattern(root \o "/.rspec")
              /\ C19_Indicator
        /\ pc = "resolved" => err = ""
        /\ (Returned /\ result = "") => err = ""
        /\ (pc = "exited" /\ result = "") => status = 0

\* the stat of an existing candidate was refused and the search went on to a
\* later candidate, which it returned
C19_Witness ==
    /\ called
    /\ result # ""
    /\ \E i \in 1..Len(probes) :
          /\ probes[i].target \in denied
          /\ probes[i].target \in fs
          /\ i < Len(probes)

\* C23: for an input path that ends in .rb and exists on disk, AlternateFile
\* never returns the input file itself: the result is empty or differs from
\* the root joined with the input path
C23_NeverReturnsInput ==
    (called /\ HasSuffix(filename, ".rb") /\ OnDisk(filename)) =>
        result # InRoot(filename)

\* the classification of the returned file under the project's convention
C24_ResultIsTestFile == IsTestFile(Project, fs, Rel(result))

\* C24: resolution flips the classification: a non-empty result for a path
\* classified as a source file is classified as a test file, and a non-empty
\* result for a path classified as a test file is classified as a source
\* file, the results of the two special cases included
C24_FlipsClassification ==
    (called /\ result # "") => (C24_ResultIsTestFile # detected.IsTestFile)

\* AlternateFile is called and returns
AlternateFileCall == pc # "resolved" /\ pc' = "resolved"

\* C25: an AlternateFile call ends after at most 5 existence probes for a
\* source file (1 special case + 2 test directories x 2 source directories)
\* and at most 9 for a test file (1 special case + 2 x 2 x at most 2
\* matchers); it makes no probe after one that found its target, and it
\* leaves the filesystem as it was
C25_BoundedProbes ==
    [][AlternateFileCall =>
         /\ Len(probes') <= (IF detected'.IsTestFile THEN 9 ELSE 5)
         /\ \A i \in 1..(Len(probes') - 1) : ~probes'[i].found
         /\ result' # "" =>
               /\ probes' # <<>>
               /\ probes'[Len(probes')].found
               /\ probes'[Len(probes')].target = result'
         /\ fs' = fs]_vars

\* the lookup of a controller made the special-case probe and the four
\* probes of the general rule, and ended without a result
C25_Witness ==
    /\ called
    /\ pc = "resolved"
    /\ ~detected.IsTestFile
    /\ Len(probes) = 5
    /\ IsSpecial(probes[1])
    /\ fs # {}
    /\ result = ""

\* the positions at which old occurs in s
C21_Occurrences(s, old) ==
    { i \in 1..(Len(s) - Len(old) + 1) : SubSeq(s, i, i + Len(old) - 1) = old }

\* s with its leftmost occurrence of old replaced by new, s when there is none
C21_FirstReplaced(s, old, new) ==
    IF C21_Occurrences(s, old) = {} THEN s
    ELSE LET i == CHOOSE i \in C21_Occurrences(s, old) :
                      \A j \in C21_Occurrences(s, old) : i <= j
         IN  SubSeq(s, 1, i - 1) \o new \o SubSeq(s, i + Len(old), Len(s))

\* the source directory and the test directory of the k-th general probe
C21_SrcDir(k) == detected.SrcPaths[((k - 1) % 2) + 1]

C21_TestDir(k) == detected.TestPaths[((k - 1) \div 2) + 1]

\* C21: for a non-empty source directory the candidate of findAlternateTest
\* is the input path with only its first textual occurrence of the source
\* directory replaced by the test directory, wherever it occurs, also inside
\* a segment name; when the source directory does not occur the path stays as
\* it is and is still probed after the suffix transform; the suffix transform
\* replaces only the first occurrence of ".rb"
C21_FirstOccurrenceReplaced ==
    IsSourceLookup =>
        \A k \in 1..Len(GeneralProbes) :
            C21_SrcDir(k) # "" =>
                GeneralProbes[k].target =
                    InRoot(C21_FirstReplaced(
                               C21_FirstReplaced(filename, C21_SrcDir(k),
                                                 C21_TestDir(k)),
                               ".rb", detected.TestSuffix))

\* config/application.rb was looked up: "app" was replaced inside the segment
\* name, and the path without "lib" was probed unchanged but for its suffix
C21_Witness ==
    /\ IsSourceLookup
    /\ filename = "config/application.rb"
    /\ Len(probes) = 2
    /\ probes[1].target = InRoot("config/speclication_spec.rb")
    /\ ~probes[1].found
    /\ result = InRoot("config/application_spec.rb")

(***************************************************************************)
(* C22: within one AlternateFile call every value derived from the         *)
(* convention (the matchers of the classification, the test directories,   *)
(* the source directories, the matchers of the stripping, the test suffix  *)
(* of each iteration) comes from one and the same pair of IsGem and IsSpec *)
(* answers, also when another process creates or removes .rspec,           *)
(* spec_helper.rb or a gemspec while the call runs: any two accessor calls *)
(* of the call that asked the same question got the same answer.           *)
(***************************************************************************)
C22_OneConventionPerCall ==
    \A i, j \in 1..Len(call.reads) :
        call.reads[i].about = call.reads[j].about
            => call.reads[i].answer = call.reads[j].answer

=============================================================================
